---- MODULE Spec2Model ----
(***************************************************************************)
(* Model of cbz_refactor.py: the batch planner (calculate_batches), the    *)
(* filename classifier, the directory processor (process_directory) and    *)
(* the driver loop (main).                                                 *)
(*                                                                         *)
(* File names are sequences of one-character strings (the ".cbz" suffix,   *)
(* common to every file the glob returns and to every output, is left      *)
(* out).  An archive is a record [ok, imgs]: ok = FALSE is an archive that *)
(* zipfile cannot read, imgs is the sequence of its image entries in       *)
(* in-archive name order, each image standing for its byte content.        *)
(***************************************************************************)
EXTENDS Integers, Sequences, FiniteSets, TLC

\* ------------------------------------------------------------------ bounds
MaxFiles == 10     \* planner specification: largest file count tried
MaxSize  == 3      \* planner specification: largest batch size in a spec
MaxK     == 3      \* planner specification: longest explicit list
MaxRows  == 2      \* driver specification: rows in the configuration table
MaxPlain == 2      \* plain (neither special nor volume-tagged) files in the folder

\* ------------------------------------------------------------ small helpers
Min(a, b) == IF a < b THEN a ELSE b

RECURSIVE sum(_)
sum(s) == IF s = <<>> THEN 0 ELSE Head(s) + sum(Tail(s))

Range(s) == {s[i] : i \in 1..Len(s)}

\* [x] * n  (an empty list when n <= 0)
Replicate(x, n) == [i \in 1..n |-> x]

\* s[lo:hi] for 0 <= lo <= hi (Python slice, clamped to the list)
Slice(s, lo, hi) ==
    LET top == Min(hi, Len(s))
    IN  IF lo >= top THEN <<>> ELSE [i \in 1..(top - lo) |-> s[lo + i]]

\* ---------------------------------------------------------- calculate_batches
\* Outcomes of a call: a returned plan, an exception propagating to the
\* caller, or a loop that never ends.
Return(plan) == [kind |-> "return", plan |-> plan]
Raise        == [kind |-> "raise",  plan |-> <<>>]
Hang         == [kind |-> "hang",   plan |-> <<>>]

\* faulty variant: the partial last batch is dropped even when no_extra is off
RepeatingBatchesFloor(num_files, batch_size, no_extra) ==
    IF batch_size = 0 THEN Raise
    ELSE Return(Replicate(batch_size, num_files \div batch_size))

\* faulty variant: the last batch is sized to the leftover files
RepeatingBatchesExact(num_files, batch_size, no_extra) ==
    IF batch_size = 0 THEN Raise
    ELSE Return(Replicate(batch_size, num_files \div batch_size)
                \o (IF no_extra \/ num_files % batch_size = 0
                    THEN <<>> ELSE <<num_files % batch_size>>))

\* lines 106-118: repeating mode.  batch_size = 0 makes // and % raise
\* ZeroDivisionError.
RepeatingBatches(num_files, batch_size, no_extra) ==
    IF batch_size = 0 THEN Raise
    ELSE LET num_batches == IF no_extra
                            THEN num_files \div batch_size
                            ELSE (num_files + batch_size - 1) \div batch_size
         IN  Return(Replicate(batch_size, num_batches))

\* faulty variant: the size is appended without clamping it to the remaining files
RECURSIVE ClampLoopNoMin(_, _, _, _)
ClampLoopNoMin(batch_sizes, i, remaining, result) ==
    IF i > Len(batch_sizes) \/ remaining <= 0 THEN result
    ELSE ClampLoopNoMin(batch_sizes, i + 1, remaining - batch_sizes[i],
                        Append(result, batch_sizes[i]))

\* lines 125-132: for size in batch_sizes, stop when remaining <= 0
RECURSIVE ClampLoop(_, _, _, _)
ClampLoop(batch_sizes, i, remaining, result) ==
    IF i > Len(batch_sizes) \/ remaining <= 0 THEN result
    ELSE ClampLoop(batch_sizes, i + 1, remaining - batch_sizes[i],
                   Append(result, Min(batch_sizes[i], remaining)))

\* faulty variant: the last appended batch is a full avg_size batch
RECURSIVE ExtendLoopFull(_, _, _)
ExtendLoopFull(result, remaining, avg_size) ==
    IF remaining <= 0 THEN Return(result)
    ELSE IF avg_size <= 0 THEN Hang
    ELSE ExtendLoopFull(Append(result, avg_size), remaining - avg_size, avg_size)

\* lines 149-155: while remaining > 0.  With avg_size <= 0 the first branch
\* is taken on every iteration and remaining never decreases.
RECURSIVE ExtendLoop(_, _, _)
ExtendLoop(result, remaining, avg_size) ==
    IF remaining <= 0 THEN Return(result)
    ELSE IF remaining > avg_size
         THEN IF avg_size <= 0 THEN Hang
              ELSE ExtendLoop(Append(result, avg_size), remaining - avg_size, avg_size)
         ELSE Return(Append(result, remaining))

\* lines 100-157
calculate_batches(num_files, batch_sizes, is_repeating, no_extra) ==
    IF is_repeating THEN RepeatingBatches(num_files, batch_sizes[1], no_extra)
    ELSE LET total_specified == sum(batch_sizes)
         IN  IF num_files <= total_specified
             THEN Return(ClampLoop(batch_sizes, 1, num_files, <<>>))
             ELSE IF no_extra THEN Return(batch_sizes)
             ELSE ExtendLoop(batch_sizes, num_files - total_specified,
                             sum(batch_sizes) \div Len(batch_sizes))

\* lines 279-283: the number of files each planned batch really consumes
\* from a list of n files (the slice clamps at the end of the list)
RECURSIVE SumTo(_, _)
SumTo(s, i) == IF i <= 0 THEN 0 ELSE s[i] + SumTo(s, i - 1)

Consumed(n, plan, i) ==
    Len(Slice([j \in 1..n |-> j], SumTo(plan, i - 1), SumTo(plan, i - 1) + plan[i]))

\* ------------------------------------------------------- planner state
VARIABLES cb_num_files, cb_batch_sizes, cb_is_repeating, cb_no_extra, cb_result

cb_vars == <<cb_num_files, cb_batch_sizes, cb_is_repeating, cb_no_extra, cb_result>>

Pending == [kind |-> "pending", plan |-> <<>>]

\* explicit lists have at least two entries: a string with a comma splits
\* into at least two fields (lines 69-72)
SizeLists == UNION {[1..k -> 1..MaxSize] : k \in 2..MaxK}

\* ------------------------------------------------------- filename classifier
Digits == {"0", "1", "2", "3", "4", "5", "6", "7", "8", "9"}

DigitVal == ("0" :> 0) @@ ("1" :> 1) @@ ("2" :> 2) @@ ("3" :> 3) @@ ("4" :> 4) @@
            ("5" :> 5) @@ ("6" :> 6) @@ ("7" :> 7) @@ ("8" :> 8) @@ ("9" :> 9)

DigitChar == [d \in 0..9 |-> CHOOSE c \in Digits : DigitVal[c] = d]

\* code points of the characters used in names (the order sorted() uses)
Ord == (" " :> 32) @@ ("A" :> 65) @@ ("B" :> 66) @@ ("P" :> 80) @@ ("S" :> 83) @@
       ("V" :> 86) @@ ("p" :> 112) @@ ("s" :> 115) @@ ("v" :> 118) @@
       [c \in Digits |-> 48 + DigitVal[c]]

\* Python's None for a missing volume number
None == 0 - 1

\* lines 12-16: re.search(r'(?i)SP\d{2}', filename)
is_special_file(filename) ==
    \E i \in 1..(Len(filename) - 3) :
        /\ filename[i] \in {"S", "s"}
        /\ filename[i + 1] \in {"P", "p"}
        /\ filename[i + 2] \in Digits
        /\ filename[i + 3] \in Digits

\* positions where r'(?i)V\d+' matches
VMatches(filename) ==
    {i \in 1..(Len(filename) - 1) :
        filename[i] \in {"V", "v"} /\ filename[i + 1] \in Digits}

\* lines 18-22
is_volume_file(filename) == VMatches(filename) # {}

\* int() of the greedy digit run starting at position i
RECURSIVE DigitRun(_, _, _)
DigitRun(filename, i, acc) ==
    IF i <= Len(filename) /\ filename[i] \in Digits
    THEN DigitRun(filename, i + 1, 10 * acc + DigitVal[filename[i]])
    ELSE acc

\* lines 24-31: the digit group of the first (leftmost) match
extract_volume_number(filename) ==
    IF VMatches(filename) = {} THEN None
    ELSE LET first == CHOOSE i \in VMatches(filename) :
                          \A j \in VMatches(filename) : i <= j
         IN  DigitRun(filename, first + 1, 0)

\* decimal digits of n >= 0
RECURSIVE Decimal(_)
Decimal(n) == IF n < 10 THEN <<DigitChar[n]>>
              ELSE Append(Decimal(n \div 10), DigitChar[n % 10])

\* f"{n:03d}"
Pad3(n) == LET d == Decimal(n)
           IN  IF Len(d) >= 3 THEN d ELSE Replicate("0", 3 - Len(d)) \o d

\* line 304: f"{folder_name} V{volume_counter:03d}.cbz"
output_name(folder, volume) == folder \o <<" ", "V">> \o Pad3(volume)

\* string comparison by code point
RECURSIVE LexLess(_, _)
LexLess(a, b) ==
    IF a = <<>> THEN b # <<>>
    ELSE IF b = <<>> THEN FALSE
    ELSE IF Head(a) = Head(b) THEN LexLess(Tail(a), Tail(b))
    ELSE Ord[Head(a)] < Ord[Head(b)]

\* line 220: sorted(...)
RECURSIVE sorted(_)
sorted(S) ==
    IF S = {} THEN <<>>
    ELSE LET m == CHOOSE x \in S : \A y \in S \ {x} : LexLess(x, y)
         IN  <<m>> \o sorted(S \ {m})

\* ------------------------------------------------------------ configuration
\* lines 83-98, on cells already stripped and lower-cased
parse_bool(value, default) ==
    IF value = "" THEN [kind |-> "return", val |-> default]
    ELSE IF value \in {"true", "yes", "1", "t", "y"} THEN [kind |-> "return", val |-> TRUE]
    ELSE IF value \in {"false", "no", "0", "f", "n"} THEN [kind |-> "return", val |-> FALSE]
    ELSE [kind |-> "raise", val |-> default]

\* A batch-size cell is the sequence of its comma-separated fields; a field
\* is an integer literal or text int() rejects.  The blank cell is <<>>.
IntField(n) == [kind |-> "int", val |-> n]
JunkField   == [kind |-> "junk", val |-> 0]

\* lines 59-81: ValueError when a field is not an integer; a single field
\* is the repeating mode
parse_batch_sizes(batch_str) ==
    IF \E i \in 1..Len(batch_str) : batch_str[i].kind # "int"
    THEN [kind |-> "raise", sizes |-> <<>>, is_repeating |-> FALSE]
    ELSE [kind |-> "return",
          sizes |-> [i \in 1..Len(batch_str) |-> batch_str[i].val],
          is_repeating |-> Len(batch_str) = 1]

\* ------------------------------------------------------------- file system
FolderA == <<"A">>                      \* the folder that exists under the base path
FolderB == <<"B">>                      \* a folder name with no directory behind it

\* "A 001", "A 002", ...
PlainFile(i) == FolderA \o <<" ">> \o Pad3(i)
File001  == PlainFile(1)
File002  == PlainFile(2)
FileSP01 == <<"A", " ", "S", "P", "0", "1">>
FileSPV9 == <<"A", " ", "S", "P", "0", "1", " ", "V", "9">>
FileV002 == <<"A", " ", "V", "0", "0", "2">>

Candidates == {PlainFile(i) : i \in 1..MaxPlain} \cup {FileSP01, FileSPV9, FileV002}

Corrupt       == [ok |-> FALSE, imgs |-> <<>>]
Archive(imgs) == [ok |-> TRUE, imgs |-> imgs]

\* an archive as first found on disk: unreadable, without images, or holding
\* one image of its own
InitialArchive(name, kind) ==
    CASE kind = "corrupt" -> Corrupt
      [] kind = "empty"   -> Archive(<<>>)
      [] kind = "image"   -> Archive(<<name>>)

WriteFile(dir, name, content) ==
    [n \in (DOMAIN dir) \cup {name} |-> IF n = name THEN content ELSE dir[n]]

RemoveFiles(dir, names) == [n \in (DOMAIN dir) \ names |-> dir[n]]

\* -------------------------------------------------------------- driver state
VARIABLES
    pc,               \* where main is: "read", "process_directory", "batches",
                      \* "complete" (line 390), "aborted" (line 388), "hung"
    row_num,          \* rows taken from the csv reader so far
    fs,               \* the *.cbz files of FolderA: name -> archive
    specials,         \* the files of FolderA/Specials
    folder_name, batch_sizes_str, no_extra, avoid_volumes, delete_originals,
    regular_files, volume_files, moved_files,
    volume_counter, actual_batches, batch_no, file_index,
    start_counter,    \* history: volume_counter when the batch loop starts
    log               \* history: one record per batch of the current call

args   == <<folder_name, batch_sizes_str, no_extra, avoid_volumes, delete_originals>>
locals == <<regular_files, volume_files, moved_files, volume_counter, actual_batches,
            batch_no, file_index, start_counter, log>>
dir_vars == <<pc, row_num, fs, specials, args, locals>>
vars == <<cb_vars, dir_vars>>

\* ------------------------------------------------------ process_directory
\* lines 226-237
Classify(cbz_files, avoid) ==
    [special |-> SelectSeq(cbz_files, is_special_file),
     volume  |-> SelectSeq(cbz_files,
                    LAMBDA f : ~is_special_file(f) /\ avoid /\ is_volume_file(f)),
     regular |-> SelectSeq(cbz_files,
                    LAMBDA f : ~is_special_file(f) /\ ~(avoid /\ is_volume_file(f)))]

\* lines 260-264
RECURSIVE MaxVolume(_, _)
MaxVolume(files, max_volume) ==
    IF files = <<>> THEN max_volume
    ELSE LET vol_num == extract_volume_number(Head(files))
         IN  MaxVolume(Tail(files),
                       IF vol_num # None /\ vol_num > max_volume
                       THEN vol_num ELSE max_volume)

\* faulty variant: numbering restarts at the highest existing volume
StartVolumeNoStep(avoid, files) ==
    IF avoid /\ files # <<>> /\ MaxVolume(files, 0) > 0
    THEN MaxVolume(files, 0) ELSE 1

\* lines 256-268
StartVolume(avoid, files) ==
    IF avoid /\ files # <<>> /\ MaxVolume(files, 0) > 0
    THEN MaxVolume(files, 0) + 1 ELSE 1

\* line 292: extraction succeeds on a file that exists and is a readable zip
Extracts(dir, f) == f \in DOMAIN dir /\ dir[f].ok

\* lines 287-296: the images of the batch, in consumption order
RECURSIVE AllImages(_, _)
AllImages(dir, batch) ==
    IF batch = <<>> THEN <<>>
    ELSE (IF Extracts(dir, Head(batch)) THEN dir[Head(batch)].imgs ELSE <<>>)
         \o AllImages(dir, Tail(batch))

\* lines 311-312: the files unlink() is called on after a successful write
DeleteSet(batch, delete) == IF delete THEN Range(batch) ELSE {}

\* faulty variant: a failed write deletes the sources as well
DeletesAfterAny(outcome) == outcome \in {"written", "writefail"}

\* lines 307-321: the deletion loop sits after create_cbz_from_memory inside
\* the try block, so it runs only when the write raised nothing
DeletesAfter(outcome) == outcome = "written"

\* lines 300 and 319: the counter after a batch; line 319 is skipped when
\* create_cbz_from_memory raises
CounterAfter(counter, outcome) ==
    IF outcome \in {"written", "noimages"} THEN counter + 1 ELSE counter

NoLocals ==
    /\ folder_name' = FolderA
    /\ batch_sizes_str' = <<>>
    /\ no_extra' = TRUE
    /\ avoid_volumes' = TRUE
    /\ delete_originals' = TRUE
    /\ regular_files' = <<>>
    /\ volume_files' = <<>>
    /\ moved_files' = {}
    /\ volume_counter' = 1
    /\ actual_batches' = <<>>
    /\ batch_no' = 1
    /\ file_index' = 0
    /\ start_counter' = 1
    /\ log' = <<>>

\* lines 205-276: everything process_directory does before the batch loop
ProcessDirectoryEnter ==
    /\ pc = "process_directory"
    /\ UNCHANGED <<cb_vars, row_num>>
    /\ LET parsed    == parse_batch_sizes(batch_sizes_str)
           cbz_files == sorted(DOMAIN fs)
           classes   == Classify(cbz_files, avoid_volumes)
       IN  IF folder_name # FolderA \/ parsed.kind = "raise" \/ cbz_files = <<>>
           THEN /\ pc' = "read"                       \* lines 209, 217, 224
                /\ UNCHANGED <<fs, specials>>
                /\ NoLocals
           ELSE \E moved \in SUBSET Range(classes.special) :   \* lines 244-250
                /\ fs' = RemoveFiles(fs, moved)
                /\ specials' = [n \in (DOMAIN specials) \cup moved |->
                                   IF n \in moved THEN fs[n] ELSE specials[n]]
                /\ IF classes.regular = <<>>
                   THEN pc' = "read" /\ NoLocals      \* line 272
                   ELSE LET r == calculate_batches(Len(classes.regular), parsed.sizes,
                                                   parsed.is_repeating, no_extra)
                        IN  IF r.kind = "return"
                            THEN /\ pc' = "batches"
                                 /\ UNCHANGED args
                                 /\ regular_files' = classes.regular
                                 /\ volume_files' = classes.volume
                                 /\ moved_files' = moved
                                 /\ volume_counter' = StartVolume(avoid_volumes, classes.volume)
                                 /\ start_counter' = StartVolume(avoid_volumes, classes.volume)
                                 /\ actual_batches' = r.plan
                                 /\ batch_no' = 1
                                 /\ file_index' = 0
                                 /\ log' = <<>>
                            ELSE \* the exception leaves process_directory and is
                                 \* caught at line 386; a loop that never ends
                                 \* keeps the run inside calculate_batches
                                 /\ pc' = IF r.kind = "raise" THEN "aborted" ELSE "hung"
                                 /\ NoLocals

\* lines 281-324: one iteration of the batch loop
ProcessBatch ==
    /\ pc = "batches"
    /\ batch_no <= Len(actual_batches)
    /\ UNCHANGED <<cb_vars, pc, row_num, specials, args, regular_files, volume_files,
                   moved_files, actual_batches, start_counter>>
    /\ LET batch_size  == actual_batches[batch_no]
           batch       == Slice(regular_files, file_index, file_index + batch_size)
           all_images  == AllImages(fs, batch)
           output_path == output_name(folder_name, volume_counter)
           entry       == [files |-> batch, vol |-> volume_counter, out |-> output_path,
                           existed |-> output_path \in DOMAIN fs,
                           extracted |-> {f \in Range(batch) : Extracts(fs, f)},
                           imgs |-> all_images]
       IN  /\ file_index' = file_index + batch_size
           /\ batch_no' = batch_no + 1
           /\ IF all_images = <<>>
              THEN /\ fs' = fs                        \* lines 298-301
                   /\ volume_counter' = CounterAfter(volume_counter, "noimages")
                   /\ log' = Append(log, entry @@ [outcome |-> "noimages", partial |-> FALSE,
                                                   deleted |-> {}, del_failed |-> {}])
              ELSE \E outcome \in {"written", "writefail"}, partial \in BOOLEAN :
                   \E del_failed \in SUBSET Range(batch) :
                   LET written == IF outcome = "written"
                                  THEN WriteFile(fs, output_path, Archive(all_images))
                                  ELSE IF partial
                                  THEN WriteFile(fs, output_path, Corrupt)
                                  ELSE fs
                       calls   == IF DeletesAfter(outcome)
                                  THEN DeleteSet(batch, delete_originals) ELSE {}
                   IN  /\ outcome = "written" => ~partial
                       /\ del_failed \subseteq calls
                       /\ fs' = RemoveFiles(written, calls \ del_failed)
                       /\ volume_counter' = CounterAfter(volume_counter, outcome)
                       /\ log' = Append(log, entry @@ [outcome |-> outcome, partial |-> partial,
                                                       deleted |-> calls \ del_failed,
                                                       del_failed |-> del_failed])

\* lines 326-329 and the return to main's loop
ProcessDirectoryReturn ==
    /\ pc = "batches"
    /\ batch_no > Len(actual_batches)
    /\ pc' = "read"
    /\ NoLocals
    /\ UNCHANGED <<cb_vars, row_num, fs, specials>>

\* ------------------------------------------------------------------- main
BatchCells == {<<>>, <<JunkField>>, <<IntField(0)>>, <<IntField(1)>>, <<IntField(2)>>,
               <<IntField(1), IntField(1)>>, <<IntField(0), IntField(0)>>}

Rows ==
    {<<>>, <<FolderA>>}
    \cup {<<f, b>> : f \in {FolderA, FolderB}, b \in BatchCells}
    \cup {<<FolderA, b, c2, c3, c4, c5>> :
             b \in BatchCells \ {<<>>}, c2 \in {"", "no"}, c3 \in {"", "no"},
             c4 \in {"", "no"}, c5 \in {"", "yes"}}
    \cup {<<FolderA, b, "maybe", "no", "no", "yes">> : b \in BatchCells \ {<<>>}}

\* lines 367-378: any unparseable cell puts all four flags at their defaults
RowFlags(row) ==
    LET p2 == IF Len(row) > 2 THEN parse_bool(row[3], TRUE) ELSE parse_bool("", TRUE)
        p3 == IF Len(row) > 3 THEN parse_bool(row[4], TRUE) ELSE parse_bool("", TRUE)
        p4 == IF Len(row) > 4 THEN parse_bool(row[5], TRUE) ELSE parse_bool("", TRUE)
        p5 == IF Len(row) > 5 THEN parse_bool(row[6], FALSE) ELSE parse_bool("", FALSE)
    IN  IF "raise" \in {p2.kind, p3.kind, p4.kind, p5.kind}
        THEN [no_extra |-> TRUE, avoid_volumes |-> TRUE, delete_originals |-> TRUE,
              ignore |-> FALSE]
        ELSE [no_extra |-> p2.val, avoid_volumes |-> p3.val, delete_originals |-> p4.val,
              ignore |-> p5.val]

\* lines 354-363 and 381-383: the rows main skips by itself
RowSkipped(row) ==
    IF Len(row) < 1 THEN TRUE
    ELSE IF Len(row) < 2 THEN TRUE
    ELSE IF row[2] = <<>> THEN TRUE
    ELSE RowFlags(row).ignore

\* lines 353-383, a row that main skips
MainRowSkipped ==
    /\ pc = "read"
    /\ row_num < MaxRows
    /\ \E row \in Rows : RowSkipped(row)
    /\ row_num' = row_num + 1
    /\ UNCHANGED <<cb_vars, pc, fs, specials, args, locals>>

\* lines 353-385, a row that reaches the call of process_directory
MainRowProcessed ==
    /\ pc = "read"
    /\ row_num < MaxRows
    /\ \E row \in Rows :
        /\ ~RowSkipped(row)
        /\ folder_name' = row[1]
        /\ batch_sizes_str' = row[2]
        /\ no_extra' = RowFlags(row).no_extra
        /\ avoid_volumes' = RowFlags(row).avoid_volumes
        /\ delete_originals' = RowFlags(row).delete_originals
    /\ row_num' = row_num + 1
    /\ pc' = "process_directory"
    /\ UNCHANGED <<cb_vars, fs, specials, locals>>

\* line 390: the reader is exhausted
MainEnd ==
    /\ pc = "read"
    /\ pc' = "complete"
    /\ UNCHANGED <<cb_vars, row_num, fs, specials, args, locals>>

\* --------------------------------------------------------- specifications
PlannerIdle ==
    /\ cb_num_files = 0
    /\ cb_batch_sizes = <<1>>
    /\ cb_is_repeating = TRUE
    /\ cb_no_extra = TRUE
    /\ cb_result = Pending

NoCall ==
    /\ regular_files = <<>>
    /\ volume_files = <<>>
    /\ moved_files = {}
    /\ volume_counter = 1
    /\ actual_batches = <<>>
    /\ batch_no = 1
    /\ file_index = 0
    /\ start_counter = 1
    /\ log = <<>>

DriverIdle ==
    /\ pc = "idle"
    /\ row_num = 0
    /\ fs = <<>>
    /\ specials = <<>>
    /\ folder_name = FolderA
    /\ batch_sizes_str = <<>>
    /\ no_extra = TRUE
    /\ avoid_volumes = TRUE
    /\ delete_originals = TRUE
    /\ NoCall

\* The folder as found: each regular candidate and the volume-tagged one is
\* absent, unreadable or holds one image (the first may also be a readable
\* archive without images); at most one of the two special candidates is
\* present.
InitialKinds ==
    {k \in [Candidates -> {"absent", "corrupt", "empty", "image"}] :
        /\ \A n \in Candidates \ {File001} : k[n] # "empty"
        /\ k[FileSP01] \in {"absent", "image"}
        /\ k[FileSPV9] \in {"absent", "image"}
        /\ k[FileSP01] = "absent" \/ k[FileSPV9] = "absent"}

InitialFolder ==
    \E k \in InitialKinds :
        fs = [n \in {m \in Candidates : k[m] # "absent"} |-> InitialArchive(n, k[n])]

\* one call of process_directory on a folder as found
Init ==
    /\ PlannerIdle
    /\ InitialFolder
    /\ specials = <<>>
    /\ pc = "process_directory"
    /\ row_num = 1
    /\ folder_name \in {FolderA, FolderB}
    /\ batch_sizes_str \in BatchCells \ {<<>>}
    /\ no_extra \in BOOLEAN
    /\ avoid_volumes \in BOOLEAN
    /\ delete_originals \in BOOLEAN
    /\ NoCall

Next ==
    \/ ProcessDirectoryEnter
    \/ ProcessBatch
    \/ ProcessDirectoryReturn

Spec == Init /\ [][Next]_vars

\* the whole run: main reads up to MaxRows rows
MainInit ==
    /\ PlannerIdle
    /\ InitialFolder
    /\ specials = <<>>
    /\ pc = "read"
    /\ row_num = 0
    /\ folder_name = FolderA
    /\ batch_sizes_str = <<>>
    /\ no_extra = TRUE
    /\ avoid_volumes = TRUE
    /\ delete_originals = TRUE
    /\ NoCall

MainNext ==
    \/ MainRowSkipped
    \/ MainRowProcessed
    \/ MainEnd
    \/ ProcessDirectoryEnter
    \/ ProcessBatch
    \/ ProcessDirectoryReturn

MainSpec == MainInit /\ [][MainNext]_vars

\* the planner on its own: the inputs are drawn at the start, the call is
\* the only step
PlanInit ==
    /\ DriverIdle
    /\ cb_num_files \in 0..MaxFiles
    /\ cb_is_repeating \in BOOLEAN
    /\ cb_no_extra \in BOOLEAN
    /\ cb_batch_sizes \in IF cb_is_repeating THEN {<<n>> : n \in 1..MaxSize} ELSE SizeLists
    /\ cb_result = Pending

PlanCall ==
    /\ cb_result = Pending
    /\ cb_result' = calculate_batches(cb_num_files, cb_batch_sizes, cb_is_repeating, cb_no_extra)
    /\ UNCHANGED <<cb_num_files, cb_batch_sizes, cb_is_repeating, cb_no_extra, dir_vars>>

PlanNext == PlanCall

PlanSpec == PlanInit /\ [][PlanNext]_vars

\* ================================================================= claims
plan == cb_result.plan

\* ---- planner claims, checked under PlanSpec

\* C1: for an explicit list of positive sizes and a file count that does not
\* exceed their sum, whatever no_extra is, the plan sums to the file count
\* and is a clamped prefix of the list: every entry but the last equals the
\* list's entry, the last is between 1 and the list's entry.
C1_ClampedPrefix ==
    (cb_result # Pending /\ ~cb_is_repeating /\ cb_num_files <= sum(cb_batch_sizes)) =>
        /\ cb_result.kind = "return"
        /\ sum(plan) = cb_num_files
        /\ Len(plan) <= Len(cb_batch_sizes)
        /\ \A i \in 1..(Len(plan) - 1) : plan[i] = cb_batch_sizes[i]
        /\ Len(plan) > 0 =>
              /\ plan[Len(plan)] >= 1
              /\ plan[Len(plan)] <= cb_batch_sizes[Len(plan)]

\* Scenario 3: "2,3" with 4 files gives [2,2]
C1_Witness ==
    /\ ~cb_is_repeating
    /\ cb_batch_sizes = <<2, 3>>
    /\ cb_num_files = 4
    /\ cb_result = Return(<<2, 2>>)

\* C2: for an explicit list of k positive sizes summing to total, more files
\* than total and no_extra off, the call returns the k sizes followed by
\* batches of avg = total \div k, the last appended batch being the leftover
\* (between 1 and avg); the plan sums to the file count.
C2_ExtendedByAverage ==
    (cb_result # Pending /\ ~cb_is_repeating /\ ~cb_no_extra
       /\ cb_num_files > sum(cb_batch_sizes)) =>
        LET k   == Len(cb_batch_sizes)
            avg == sum(cb_batch_sizes) \div k
        IN  /\ cb_result.kind = "return"
            /\ Len(plan) > k
            /\ SubSeq(plan, 1, k) = cb_batch_sizes
            /\ \A i \in (k + 1)..(Len(plan) - 1) : plan[i] = avg
            /\ plan[Len(plan)] >= 1
            /\ plan[Len(plan)] <= avg
            /\ sum(plan) = cb_num_files

\* Scenario 4: "2,3" with 10 files gives [2,3,2,2,1]
C2_Witness ==
    /\ ~cb_is_repeating
    /\ ~cb_no_extra
    /\ cb_batch_sizes = <<2, 3>>
    /\ cb_num_files = 10
    /\ cb_result = Return(<<2, 3, 2, 2, 1>>)

\* C3: in repeating mode with size n > 0 and no_extra off the plan has
\* ceil(fileCount / n) batches, it sums to fileCount + r with 0 <= r < n, and
\* without its last batch it sums to less than fileCount (fileCount > 0).
C3_RepeatingOverrun ==
    (cb_result # Pending /\ cb_is_repeating /\ ~cb_no_extra) =>
        LET n == cb_batch_sizes[1]
        IN  /\ cb_result.kind = "return"
            /\ Len(plan) * n >= cb_num_files
            /\ (Len(plan) - 1) * n < cb_num_files \/ (cb_num_files = 0 /\ plan = <<>>)
            /\ sum(plan) - cb_num_files >= 0
            /\ sum(plan) - cb_num_files < n
            /\ cb_num_files > 0 =>
                  /\ plan # <<>>
                  /\ sum(SubSeq(plan, 1, Len(plan) - 1)) < cb_num_files

\* size 3 with 7 files: three batches, overrun 2
C3_Witness ==
    /\ cb_is_repeating
    /\ ~cb_no_extra
    /\ cb_batch_sizes = <<3>>
    /\ cb_num_files = 7
    /\ cb_result.kind = "return"
    /\ Len(plan) = 3
    /\ sum(plan) = 9

RepeatingRemainder ==
    /\ cb_result # Pending
    /\ cb_is_repeating
    /\ ~cb_no_extra
    /\ cb_num_files % cb_batch_sizes[1] # 0

\* C4 as stated: in repeating mode with no_extra off and a file count that is
\* not a multiple of n, the last entry of the plan is fileCount mod n and
\* the plan sums to fileCount.
C4_LastEntryIsLeftover ==
    RepeatingRemainder =>
        /\ cb_result.kind = "return"
        /\ plan # <<>>
        /\ plan[Len(plan)] = cb_num_files % cb_batch_sizes[1]
        /\ sum(plan) = cb_num_files

\* C4 amended: every entry of the plan is n, the last included, so the plan
\* sums to more than fileCount; it is the slice taken by the batch loop that
\* gives the last batch fileCount mod n files, every earlier batch n files.
C4_LastBatchConsumesLeftover ==
    RepeatingRemainder =>
        LET n == cb_batch_sizes[1]
        IN  /\ cb_result.kind = "return"
            /\ plan # <<>>
            /\ \A i \in 1..Len(plan) : plan[i] = n
            /\ sum(plan) > cb_num_files
            /\ \A i \in 1..(Len(plan) - 1) : Consumed(cb_num_files, plan, i) = n
            /\ Consumed(cb_num_files, plan, Len(plan)) = cb_num_files % n

\* Scenario 1: size 3 with 7 files, plan [3,3,3], the third batch takes 1 file
C4_Witness ==
    /\ RepeatingRemainder
    /\ cb_batch_sizes = <<3>>
    /\ cb_num_files = 7
    /\ plan = <<3, 3, 3>>
    /\ Consumed(7, plan, 3) = 1

\* ---- directory processor claims, checked under Spec

SetMax(S) == CHOOSE m \in S : \A x \in S : x <= m

Written(i) == log[i].outcome = "written"

C6_CounterStepsEveryBatch ==
    /\ \A i \in 1..Len(log) : log[i].vol = start_counter + i - 1
    /\ pc = "batches" => volume_counter = start_counter + Len(log)

AllDeleted == UNION {log[i].deleted : i \in 1..Len(log)}

\* C7: a file is removed only with delete_originals set, only in the batch
\* that consumed it and only once that batch's archive is written; every
\* classified file that is gone from the folder was removed that way, so the
\* files of failed or empty batches, the files the plan does not cover and
\* the skipped volume files stay; after a failed unlink the other files of
\* the batch are still unlinked and the later batches still run.
C7_DeleteOnlyAfterWrite ==
    pc = "batches" =>
        /\ \A i \in 1..Len(log) :
              /\ log[i].deleted \subseteq Range(log[i].files)
              /\ log[i].deleted # {} => delete_originals /\ Written(i)
              /\ ~Written(i) => log[i].deleted = {} /\ log[i].del_failed = {}
              /\ (Written(i) /\ delete_originals) =>
                    log[i].deleted \cup log[i].del_failed = Range(log[i].files)
        /\ (Range(regular_files) \cup Range(volume_files)) \ (DOMAIN fs) \subseteq AllDeleted
        /\ AllDeleted \cap Range(volume_files) = {}
        /\ AllDeleted \cap Range(Slice(regular_files, file_index, Len(regular_files))) = {}
        /\ Len(log) = batch_no - 1

\* a batch where one unlink failed and another succeeded, followed by a batch
\* that deleted its file
C7_Witness ==
    /\ pc = "batches"
    /\ Len(log) = 2
    /\ log[1].del_failed # {}
    /\ log[1].deleted # {}
    /\ log[2].deleted # {}
    /\ log[1].deleted \cap DOMAIN fs = {}

\* C9 as stated: a file that process_directory deletes was extracted.
C9_DeletedWereExtracted ==
    \A i \in 1..Len(log) : log[i].deleted \subseteq log[i].extracted

\* C10 as stated: no output is written where a file exists, and no output
\* of the run is deleted by the run.
C10_NoOverwrite ==
    \A i \in 1..Len(log) :
        /\ (Written(i) \/ log[i].partial) => ~log[i].existed
        /\ \A j \in 1..i : Written(j) => log[j].out \notin log[i].deleted

\* ---- driver claim, checked under MainSpec

\* C8 as stated: no row-level or file-level failure ends the run; main stays
\* in its loop until the reader is exhausted.
C8_NoFailureEndsRun ==
    pc \in {"read", "process_directory", "batches", "complete"}

====
